---- MODULE Spec2Model ----
(***************************************************************************)
(* A model of package sand (github.com/Zaba505/sand): the session run     *)
(* loop (UI.Run), the engine registry (startEngine), the engine runner    *)
(* and its per-session forwarding goroutines (runEngine), the dispatch    *)
(* call (UI.exec), the cancellable Read/Write and the signal monitor.     *)
(*                                                                         *)
(* Go channels are modelled by what they do: a send on an unbuffered      *)
(* channel is one step taken jointly by the sender and a receiver that is *)
(* at its receive; a select with several ready cases is a choice between  *)
(* the actions of those cases; a send on a closed channel panics.         *)
(***************************************************************************)
EXTENDS Integers, Sequences, FiniteSets, TLC

\* ------------------------------------------------------------------ bounds
NumSessions == 2
\* Lines a session reads before its input ends.
MaxLines == 2

Sessions == 1..NumSessions
\* Engine identities (the keys of engines.engs) and the contexts a caller
\* may pass to Run; Nil is the nil context of ui.go:182.
Engines == {"e1", "e2"}
Ctxs == {"c1"}
Nil == "nil"
\* The nil Engine (ui.go:159)
NoEngine == "noEngine"
None == 0
\* engines.Mutex with no holder
Unlocked == <<"free", 0>>

VARIABLES
    \* contexts
    ctxArg,       \* ctxArg[s]: the ctx argument of session s's Run (Nil or a context)
    parentDone,   \* parentDone[c]: the caller's context c is done
    uiCancelled,  \* uiCancelled[s]: the cancel func of ui.ctx was called
    \* Run
    pc,           \* pc[s]: where session s's Run is
    engOf,        \* engOf[s]: the eng argument of session s's Run
    runErr,       \* runErr[s]: the err result of Run
    reqClosed,    \* reqClosed[s]: Run's reqCh was closed (ui.go:195)
    \* registry and runners
    mu,           \* holder of engines.Mutex: Unlocked, <<"ui", s>> or <<"runner", r>>
    engs,         \* engines.engs: engine -> intake channel (the runner that owns it) or None
    runners,      \* the runEngine goroutines started so far, in order of creation
    hand,         \* hand[s]: startEngine's local reqCh (the runner whose intake it is)
    \* forwarding goroutines (part_000:57-68), one per accepted session channel
    fpc,          \* fpc[s]: where the forwarding goroutine of session s's channel is
    fwdOf,        \* fwdOf[s]: the runner that spawned it (its closure's ctx), or None
    \* dispatch (part_000:28-41, 57-68)
    rdErr,        \* rdErr[s]: the err of Run's last Read ("nil" or "EOF")
    nCalls,       \* nCalls[s]: exec calls made by session s; its k-th line is named k
    doneAtCall,   \* doneAtCall[s]: ui.ctx was done when the current exec was called
    myCh,         \* myCh[s]: req.respCh of the current exec call
    fwdReq,       \* fwdReq[s]: the request the forwarding goroutine holds
    fwdResp,      \* fwdResp[s]: resp, the status eng.Exec returned to it
    chans,        \* chans[c]: response channel c: exec calls that made it, whether its
                  \* request was sent, values sent on it, times it was closed
    inflight,     \* inflight[s]: eng.Exec calls of session s's requests not yet returned
    engLog,       \* engLog[s]: the last eng.Exec call that returned for session s: line and status
    got,          \* got[s]: what the last finished exec call of s returned, and how
    \* cancellable I/O (ui.go:292-371)
    inLen,        \* inLen[s]: lines the input stream ui.i of session s delivers
    inEnd,        \* inEnd[s]: what ui.i's Read does after them
    outMode,      \* outMode[s]: what ui.o's Write does
    hasPrefix,    \* hasPrefix[s]: ui.prefix is not nil
    workers,      \* workers[s]: the readAsync/writeAsync goroutines of session s, with
                  \* the channel each one serves
    ioRes,        \* ioRes[s]: (n, err) of the last Read or Write that returned
    newlines,     \* newlines[s]: calls of ui.o.Write("\n") by Run that returned (ui.go:204)
    \* signals (ui.go:272-290)
    sigHandlers,  \* sigHandlers[s]: ui.sigHandlers, signal -> handler
    sigCh,        \* sigCh[s]: sigs, the signal channel of capacity 1
    sigSeen,      \* sigSeen[s]: the last signal the monitor received, and whether it
                  \* called cancel() for it
    mon,          \* mon[s]: where monitorSys is: at its select, in the body of
                  \* case <-ctx.Done(), or stopped (its deferred calls have run)
    \* IsRecoverable (ui.go:44-68)
    recIn,        \* an error value of the caller
    recOut        \* what IsRecoverable returned for it: <<(root, ok)>>, or NoResult

ctxVars == <<ctxArg, parentDone, uiCancelled>>
runVars == <<pc, engOf, runErr, reqClosed>>
regVars == <<mu, engs, runners, hand>>
fwdVars == <<fpc, fwdOf>>
dispVars == <<rdErr, nCalls, doneAtCall, myCh, fwdReq, fwdResp, chans, inflight, engLog, got>>
ioVars == <<inLen, inEnd, outMode, hasPrefix, workers, ioRes, newlines>>
sigVars == <<sigHandlers, sigCh, sigSeen, mon>>
recVars == <<recIn, recOut>>
vars == <<ctxVars, runVars, regVars, fwdVars, dispVars, ioVars, sigVars, recVars>>

\* ---------------------------------------------------------------- contexts
\* The ctx Run hands to startEngine (ui.go:182-184, 199): the caller's ctx, or
\* the fresh cancellable context when the caller passed nil.
RootDone(s) ==
    IF ctxArg[s] = Nil THEN uiCancelled[s] ELSE parentDone[ctxArg[s]]

\* ui.ctx (ui.go:186-189): the same fresh context, or a child of the caller's.
UIDone(s) ==
    uiCancelled[s] \/ (ctxArg[s] # Nil /\ parentDone[ctxArg[s]])

\* The caller cancels a context it passed to Run.
CancelParent(c) ==
    /\ ~parentDone[c]
    /\ parentDone' = [parentDone EXCEPT ![c] = TRUE]
    /\ UNCHANGED <<ctxArg, uiCancelled, runVars, regVars, fwdVars, dispVars, ioVars, sigVars, recVars>>

\* cancel() reaches ui.ctx from the signal monitor (ui.go:285-287), which a
\* Run with an engine starts (ui.go:198).
MonitorCancel(s) ==
    /\ pc[s] # "returned"
    /\ engOf[s] # NoEngine
    /\ ~uiCancelled[s]
    /\ uiCancelled' = [uiCancelled EXCEPT ![s] = TRUE]
    /\ UNCHANGED <<ctxArg, parentDone, runVars, regVars, fwdVars, dispVars, ioVars, sigVars, recVars>>

\* ---------------------------------------------------------------- registry
RunnerIds == 1..Len(runners)

\* ctx.Done() of runner r: the ctx of the startEngine call that started it.
RunnerDone(r) == RootDone(runners[r].creator)

ExistsAlways(e) == FALSE

\* reqCh, exists := engines.engs[eng] (ui.go:259)
Exists(e) == engs[e] # None

\* Run without the check for a nil engine.
StartEngineLockAnyEngine(s) ==
    /\ pc[s] = "start"
    /\ mu = Unlocked
    /\ mu' = <<"ui", s>>
    /\ pc' = [pc EXCEPT ![s] = "lookup"]
    /\ UNCHANGED <<ctxVars, engOf, runErr, reqClosed, engs, runners, hand, fwdVars, dispVars, ioVars, sigVars, recVars>>

\* Run with an engine (ui.go:159) up to engines.Lock() in startEngine (ui.go:258)
StartEngineLock(s) ==
    /\ pc[s] = "start"
    /\ engOf[s] # NoEngine
    /\ mu = Unlocked
    /\ mu' = <<"ui", s>>
    /\ pc' = [pc EXCEPT ![s] = "lookup"]
    /\ UNCHANGED <<ctxVars, engOf, runErr, reqClosed, engs, runners, hand, fwdVars, dispVars, ioVars, sigVars, recVars>>

\* if eng == nil { panic(errNoEngine) } (ui.go:159-161): Run's first statement,
\* before the deferred recover, the options, the contexts and the channels.
RunNoEngine(s) ==
    /\ pc[s] = "start"
    /\ engOf[s] = NoEngine
    /\ runErr' = [runErr EXCEPT ![s] = "errNoEngine"]
    /\ pc' = [pc EXCEPT ![s] = "panicked"]
    /\ UNCHANGED <<ctxVars, engOf, reqClosed, regVars, fwdVars, dispVars, ioVars, sigVars, recVars>>

StartEngineLookupKeepsLock(s) ==
    /\ pc[s] = "lookup"
    /\ mu = <<"ui", s>>
    /\ IF Exists(engOf[s])
         THEN /\ hand' = [hand EXCEPT ![s] = engs[engOf[s]]]
              /\ UNCHANGED <<engs, runners>>
         ELSE /\ runners' = Append(runners,
                    [eng |-> engOf[s], creator |-> s, pc |-> "select", closed |-> FALSE])
              /\ engs' = [engs EXCEPT ![engOf[s]] = Len(runners) + 1]
              /\ hand' = [hand EXCEPT ![s] = Len(runners) + 1]
    /\ mu' = mu
    /\ pc' = [pc EXCEPT ![s] = "handoff"]
    /\ UNCHANGED <<ctxVars, engOf, runErr, reqClosed, fwdVars, dispVars, ioVars, sigVars, recVars>>

\* The critical section of startEngine (ui.go:259-265): look the engine up,
\* on a miss make the intake channel, insert it and start runEngine; unlock.
StartEngineLookup(s) ==
    /\ pc[s] = "lookup"
    /\ mu = <<"ui", s>>
    /\ IF Exists(engOf[s])
         THEN /\ hand' = [hand EXCEPT ![s] = engs[engOf[s]]]
              /\ UNCHANGED <<engs, runners>>
         ELSE /\ runners' = Append(runners,
                    [eng |-> engOf[s], creator |-> s, pc |-> "select", closed |-> FALSE])
              /\ engs' = [engs EXCEPT ![engOf[s]] = Len(runners) + 1]
              /\ hand' = [hand EXCEPT ![s] = Len(runners) + 1]
    /\ mu' = Unlocked
    /\ pc' = [pc EXCEPT ![s] = "handoff"]
    /\ UNCHANGED <<ctxVars, engOf, runErr, reqClosed, fwdVars, dispVars, ioVars, sigVars, recVars>>

\* reqCh <- uiReqCh (ui.go:267) on a closed intake channel: the runtime panics,
\* Run's deferred recover (ui.go:164-173) turns it into Run's error.
StartEnginePanic(s) ==
    /\ pc[s] = "handoff"
    /\ runners[hand[s]].closed
    /\ runErr' = [runErr EXCEPT ![s] = "panic"]
    /\ pc' = [pc EXCEPT ![s] = "ret"]
    /\ UNCHANGED <<ctxVars, engOf, reqClosed, regVars, fwdVars, dispVars, ioVars, sigVars, recVars>>

\* ------------------------------------------------------------------ runner
\* case reqCh := <-reqChs (part_000:56-68) meeting reqCh <- uiReqCh (ui.go:267):
\* the runner starts the forwarding goroutine, startEngine returns.
RunnerAccept(r, s) ==
    /\ runners[r].pc = "select"
    /\ ~runners[r].closed
    /\ pc[s] = "handoff"
    /\ hand[s] = r
    /\ fpc' = [fpc EXCEPT ![s] = "idle"]
    /\ fwdOf' = [fwdOf EXCEPT ![s] = r]
    /\ pc' = [pc EXCEPT ![s] = "prefix"]
    /\ UNCHANGED <<ctxVars, engOf, runErr, reqClosed, regVars, dispVars, ioVars, sigVars, recVars>>

RunnerCtxDoneNoClose(r) ==
    /\ runners[r].pc = "select"
    /\ RunnerDone(r)
    /\ runners' = [runners EXCEPT ![r].pc = "lock"]
    /\ UNCHANGED <<ctxVars, runVars, mu, engs, hand, fwdVars, dispVars, ioVars, sigVars, recVars>>

\* case <-ctx.Done(): return (part_000:54-55), then the deferred
\* close(reqChs) (part_000:46).
RunnerCtxDone(r) ==
    /\ runners[r].pc = "select"
    /\ RunnerDone(r)
    /\ runners' = [runners EXCEPT ![r].pc = "lock", ![r].closed = TRUE]
    /\ UNCHANGED <<ctxVars, runVars, mu, engs, hand, fwdVars, dispVars, ioVars, sigVars, recVars>>

\* engines.Lock() in the deferred function (part_000:47)
RunnerLock(r) ==
    /\ runners[r].pc = "lock"
    /\ mu = Unlocked
    /\ mu' = <<"runner", r>>
    /\ runners' = [runners EXCEPT ![r].pc = "delete"]
    /\ UNCHANGED <<ctxVars, runVars, engs, hand, fwdVars, dispVars, ioVars, sigVars, recVars>>

RunnerDeleteAll(r) ==
    /\ runners[r].pc = "delete"
    /\ mu = <<"runner", r>>
    /\ engs' = [e \in Engines |-> None]
    /\ mu' = Unlocked
    /\ runners' = [runners EXCEPT ![r].pc = "done"]
    /\ UNCHANGED <<ctxVars, runVars, hand, fwdVars, dispVars, ioVars, sigVars, recVars>>

RunnerDeleteSkipped(r) ==
    /\ runners[r].pc = "delete"
    /\ mu = <<"runner", r>>
    /\ mu' = Unlocked
    /\ runners' = [runners EXCEPT ![r].pc = "done"]
    /\ UNCHANGED <<ctxVars, runVars, engs, hand, fwdVars, dispVars, ioVars, sigVars, recVars>>

\* delete(engines.engs, eng); engines.Unlock() (part_000:48-49)
RunnerDelete(r) ==
    /\ runners[r].pc = "delete"
    /\ mu = <<"runner", r>>
    /\ engs' = [engs EXCEPT ![runners[r].eng] = None]
    /\ mu' = Unlocked
    /\ runners' = [runners EXCEPT ![r].pc = "done"]
    /\ UNCHANGED <<ctxVars, runVars, hand, fwdVars, dispVars, ioVars, sigVars, recVars>>

\* ------------------------------------------------------------ Run's return
\* Run's deferred close(reqCh) and cancel() (ui.go:190, 195).
RunReturn(s) ==
    /\ pc[s] = "ret"
    /\ reqClosed' = [reqClosed EXCEPT ![s] = TRUE]
    /\ uiCancelled' = [uiCancelled EXCEPT ![s] = TRUE]
    /\ pc' = [pc EXCEPT ![s] = "returned"]
    /\ UNCHANGED <<ctxArg, parentDone, engOf, runErr, regVars, fwdVars, dispVars, ioVars, sigVars, recVars>>

FwdRangeEndOnCtx(s) ==
    /\ fpc[s] = "idle"
    /\ fwdOf[s] # None
    /\ RunnerDone(fwdOf[s])
    /\ fpc' = [fpc EXCEPT ![s] = "done"]
    /\ UNCHANGED <<ctxVars, runVars, regVars, fwdOf, dispVars, ioVars, sigVars, recVars>>

\* for req := range rc ends when the session closed its channel (part_000:58).
FwdRangeEnd(s) ==
    /\ fpc[s] = "idle"
    /\ reqClosed[s]
    /\ fpc' = [fpc EXCEPT ![s] = "done"]
    /\ UNCHANGED <<ctxVars, runVars, regVars, fwdOf, dispVars, ioVars, sigVars, recVars>>

\* The run loop ends at the prefix write or the read (ui.go:215-226): an error
\* of either, or a read of zero bytes; one step.
RunLoopEnds(s) ==
    /\ pc[s] = "prefix"
    /\ pc' = [pc EXCEPT ![s] = "ret"]
    /\ UNCHANGED <<ctxVars, engOf, runErr, reqClosed, regVars, fwdVars, dispVars, ioVars, sigVars, recVars>>

\* --------------------------------------------------------- cancellable I/O
Res(n, err) == [n |-> n, err |-> err]
\* A call of the stream's Read or Write that never returns.
Blocked == Res(-1, "never")

\* ui.i.Read(b) (ui.go:302): the input delivers inLen[s] lines, one per call,
\* and then ends as inEnd[s] says: end of input, end of input together with the
\* last line, an error, or a call that never returns.
ReadPrim(s) ==
    IF nCalls[s] < inLen[s]
      THEN IF nCalls[s] + 1 = inLen[s] /\ inEnd[s] = "dataEOF"
             THEN Res(1, "EOF") ELSE Res(1, "nil")
      ELSE CASE inEnd[s] \in {"EOF", "dataEOF"} -> Res(0, "EOF")
             [] inEnd[s] = "err" -> Res(0, "ioErr")
             [] inEnd[s] = "block" -> Blocked

\* ui.o.Write(b) (ui.go:336, 204)
WritePrim(s) ==
    CASE outMode[s] = "ok" -> Res(1, "nil")
      [] outMode[s] = "err" -> Res(0, "ioErr")
      [] outMode[s] = "block" -> Blocked

\* The goroutine of the call in progress: the one started last.
Cur(s) == Len(workers[s])

\* make(chan ioResp, 1); go ui.readAsync / go ui.writeAsync (ui.go:317-319,
\* 359-360): the goroutine starts in the stream's call, res is what that returns.
Spawn(s, op, res) ==
    workers' = [workers EXCEPT ![s] = Append(@,
        [op |-> op, pc |-> "prim", res |-> res, buf |-> FALSE, closed |-> FALSE,
         late |-> UIDone(s)])]

\* readAsync / writeAsync once the stream's call has returned (ui.go:300-308,
\* 334-342), case readCh <- resp: the channel has room for the result; close.
WorkerSend(s, w) ==
    /\ workers[s][w].pc = "prim"
    /\ workers[s][w].res # Blocked
    /\ workers' = [workers EXCEPT ![s][w].pc = "done", ![s][w].buf = TRUE,
                                  ![s][w].closed = TRUE]
    /\ UNCHANGED <<ctxVars, runVars, regVars, fwdVars, dispVars,
                   inLen, inEnd, outMode, hasPrefix, newlines, ioRes, sigVars, recVars>>

WorkerDropNoClose(s, w) ==
    /\ workers[s][w].pc = "prim"
    /\ workers[s][w].res # Blocked
    /\ UIDone(s)
    /\ workers' = [workers EXCEPT ![s][w].pc = "done"]
    /\ UNCHANGED <<ctxVars, runVars, regVars, fwdVars, dispVars,
                   inLen, inEnd, outMode, hasPrefix, newlines, ioRes, sigVars, recVars>>

\* The same, case <-ui.ctx.Done() (ui.go:304, 338): the result is dropped; close.
WorkerDrop(s, w) ==
    /\ workers[s][w].pc = "prim"
    /\ workers[s][w].res # Blocked
    /\ UIDone(s)
    /\ workers' = [workers EXCEPT ![s][w].pc = "done", ![s][w].closed = TRUE]
    /\ UNCHANGED <<ctxVars, runVars, regVars, fwdVars, dispVars,
                   inLen, inEnd, outMode, hasPrefix, newlines, ioRes, sigVars, recVars>>

InitIOVars ==
    /\ inLen = [s \in Sessions |-> 0]
    /\ inEnd = [s \in Sessions |-> "block"]
    /\ outMode = [s \in Sessions |-> "ok"]
    /\ hasPrefix = [s \in Sessions |-> FALSE]
    /\ workers = [s \in Sessions |-> <<>>]
    /\ ioRes = [s \in Sessions |-> Res(0, "none")]
    /\ newlines = [s \in Sessions |-> 0]

\* ---------------------------------------------------------------- dispatch
\* Statuses an engine returns: 0 is continue, anything else stops the run loop.
Statuses == {0, 1}

\* The response channels: the k-th exec call of session s makes channel <<s, k>>.
ChanIds == Sessions \X (1..MaxLines)
NoChan == <<0, 0>>
NoReq == [line |-> 0, ch |-> NoChan]

Bump(n) == IF n < 2 THEN n + 1 ELSE n

\* respCh: make(chan int) (part_000:33): the capacity of the response channel.
RespCap == 0

RespChShared(s) == <<1, 1>>

\* respCh: make(chan int) (part_000:33): a channel of its own for every call.
RespCh(s) == <<s, nCalls[s] + 1>>

AfterExecIgnoresStatus(s, status) ==
    IF rdErr[s] = "EOF" THEN "newline" ELSE "prefix"

\* Where Run goes when exec returned status (ui.go:235-244): a non-zero status
\* or an EOF of the last Read ends the loop on the graceful path.
AfterExec(s, status) ==
    IF status # 0 \/ rdErr[s] = "EOF" THEN "newline" ELSE "prefix"

\* ui.exec(ui.ctx, string(b), reqCh) is called (ui.go:235) and builds its
\* request (part_000:29-34); e is the err of the read that gave the line.
CallExec(s, e) ==
    /\ rdErr' = [rdErr EXCEPT ![s] = e]
    /\ nCalls' = [nCalls EXCEPT ![s] = @ + 1]
    /\ doneAtCall' = [doneAtCall EXCEPT ![s] = UIDone(s)]
    /\ myCh' = [myCh EXCEPT ![s] = RespCh(s)]
    /\ chans' = [chans EXCEPT ![RespCh(s)].uses = Bump(@)]
    /\ pc' = [pc EXCEPT ![s] = "exec"]
    /\ UNCHANGED <<fwdReq, fwdResp, inflight, engLog, got>>

\* The prefix write and the read of a line that came with err e (ui.go:214-232),
\* as one step, and the exec call for that line.
ExecCall(s, e) ==
    /\ pc[s] = "prefix"
    /\ nCalls[s] < MaxLines
    /\ CallExec(s, e)
    /\ UNCHANGED <<ctxVars, engOf, runErr, reqClosed, regVars, fwdVars, ioVars, sigVars, recVars>>

\* case <-ctx.Done(): return 0 (part_000:36-37)
ExecCtxDone(s) ==
    /\ pc[s] = "exec"
    /\ UIDone(s)
    /\ got' = [got EXCEPT ![s] = [line |-> nCalls[s], st |-> 0, how |-> "ctx"]]
    /\ pc' = [pc EXCEPT ![s] = AfterExec(s, 0)]
    /\ UNCHANGED <<ctxVars, engOf, runErr, reqClosed, regVars, fwdVars,
                   rdErr, nCalls, doneAtCall, myCh, fwdReq, fwdResp, chans, inflight, engLog, ioVars, sigVars, recVars>>

\* case reqCh <- req (part_000:38) meeting for req := range rc (part_000:58):
\* the forwarding goroutine has the request and calls eng.Exec (part_000:59).
ExecSend(s) ==
    /\ pc[s] = "exec"
    /\ fpc[s] = "idle"
    /\ ~reqClosed[s]
    /\ fwdReq' = [fwdReq EXCEPT ![s] = [line |-> nCalls[s], ch |-> myCh[s]]]
    /\ chans' = [chans EXCEPT ![myCh[s]].sent = TRUE]
    /\ inflight' = [inflight EXCEPT ![s] = @ + 1]
    /\ fpc' = [fpc EXCEPT ![s] = "exec"]
    /\ pc' = [pc EXCEPT ![s] = "wait"]
    /\ UNCHANGED <<ctxVars, engOf, runErr, reqClosed, regVars, fwdOf,
                   rdErr, nCalls, doneAtCall, myCh, fwdResp, engLog, got, ioVars, sigVars, recVars>>

FwdExecAgain(s) ==
    /\ fpc[s] = "exec"
    /\ \E st \in Statuses :
          /\ fwdResp' = [fwdResp EXCEPT ![s] = st]
          /\ engLog' = [engLog EXCEPT ![s] = [line |-> fwdReq[s].line, st |-> st]]
    /\ \/ /\ inflight' = [inflight EXCEPT ![s] = @ - 1]
          /\ fpc' = [fpc EXCEPT ![s] = "deliver"]
       \/ UNCHANGED <<inflight, fpc>>
    /\ UNCHANGED <<ctxVars, runVars, regVars, fwdOf,
                   rdErr, nCalls, doneAtCall, myCh, fwdReq, chans, got, ioVars, sigVars, recVars>>

\* resp := eng.Exec(req.ctx, req.line, req.ui) returns (part_000:59); the
\* engine is the user's: any status.
FwdExec(s) ==
    /\ fpc[s] = "exec"
    /\ \E st \in Statuses :
          /\ fwdResp' = [fwdResp EXCEPT ![s] = st]
          /\ engLog' = [engLog EXCEPT ![s] = [line |-> fwdReq[s].line, st |-> st]]
    /\ inflight' = [inflight EXCEPT ![s] = @ - 1]
    /\ fpc' = [fpc EXCEPT ![s] = "deliver"]
    /\ UNCHANGED <<ctxVars, runVars, regVars, fwdOf,
                   rdErr, nCalls, doneAtCall, myCh, fwdReq, chans, got, ioVars, sigVars, recVars>>

\* case req.respCh <- resp (part_000:64) meeting return <-req.respCh
\* (part_000:40) of the exec call t that waits on that channel.
FwdDeliver(s, t) ==
    /\ fpc[s] = "deliver"
    /\ pc[t] = "wait"
    /\ myCh[t] = fwdReq[s].ch
    /\ chans[fwdReq[s].ch].closes = 0
    /\ chans' = [chans EXCEPT ![fwdReq[s].ch].sends = Bump(@)]
    /\ got' = [got EXCEPT ![t] = [line |-> nCalls[t], st |-> fwdResp[s], how |-> "value"]]
    /\ pc' = [pc EXCEPT ![t] = AfterExec(t, fwdResp[s])]
    /\ fpc' = [fpc EXCEPT ![s] = "close"]
    /\ UNCHANGED <<ctxVars, engOf, runErr, reqClosed, regVars, fwdOf,
                   rdErr, nCalls, doneAtCall, myCh, fwdReq, fwdResp, inflight, engLog, ioVars, sigVars, recVars>>

FwdDeliverCancelKeepsValue(s) ==
    /\ fpc[s] = "deliver"
    /\ RunnerDone(fwdOf[s])
    /\ chans' = [chans EXCEPT ![fwdReq[s].ch].sends = Bump(@), ![fwdReq[s].ch].closes = Bump(@)]
    /\ fpc' = [fpc EXCEPT ![s] = "done"]
    /\ UNCHANGED <<ctxVars, runVars, regVars, fwdOf,
                   rdErr, nCalls, doneAtCall, myCh, fwdReq, fwdResp, inflight, engLog, got, ioVars, sigVars, recVars>>

\* req.respCh <- resp (part_000:64) with no receiver: the send goes through
\* when the channel's buffer has room for the value.
FwdDeposit(s) ==
    /\ fpc[s] = "deliver"
    /\ chans[fwdReq[s].ch].closes = 0
    /\ chans[fwdReq[s].ch].sends < RespCap
    /\ chans' = [chans EXCEPT ![fwdReq[s].ch].sends = Bump(@)]
    /\ fpc' = [fpc EXCEPT ![s] = "close"]
    /\ UNCHANGED <<ctxVars, runVars, regVars, fwdOf,
                   rdErr, nCalls, doneAtCall, myCh, fwdReq, fwdResp, inflight, engLog, got, ioVars, sigVars, recVars>>

FwdAbandon(s) ==
    /\ fpc[s] \in {"exec", "deliver"}
    /\ RunnerDone(fwdOf[s])
    /\ chans' = [chans EXCEPT ![fwdReq[s].ch].closes = Bump(@)]
    /\ fpc' = [fpc EXCEPT ![s] = "idle"]
    /\ UNCHANGED <<ctxVars, runVars, regVars, fwdOf,
                   rdErr, nCalls, doneAtCall, myCh, fwdReq, fwdResp, inflight, engLog, got, ioVars, sigVars, recVars>>

FwdDeliverCancelNoReturn(s) ==
    /\ fpc[s] = "deliver"
    /\ RunnerDone(fwdOf[s])
    /\ chans' = [chans EXCEPT ![fwdReq[s].ch].closes = Bump(@)]
    /\ fpc' = [fpc EXCEPT ![s] = "close"]
    /\ UNCHANGED <<ctxVars, runVars, regVars, fwdOf,
                   rdErr, nCalls, doneAtCall, myCh, fwdReq, fwdResp, inflight, engLog, got, ioVars, sigVars, recVars>>

\* case <-ctx.Done(): close(req.respCh); return (part_000:61-63): ctx is the
\* runner's, and the forwarding goroutine ends.
FwdDeliverCancel(s) ==
    /\ fpc[s] = "deliver"
    /\ RunnerDone(fwdOf[s])
    /\ chans' = [chans EXCEPT ![fwdReq[s].ch].closes = Bump(@)]
    /\ fpc' = [fpc EXCEPT ![s] = "done"]
    /\ UNCHANGED <<ctxVars, runVars, regVars, fwdOf,
                   rdErr, nCalls, doneAtCall, myCh, fwdReq, fwdResp, inflight, engLog, got, ioVars, sigVars, recVars>>

\* close(req.respCh) after the send (part_000:66), then the next iteration.
FwdClose(s) ==
    /\ fpc[s] = "close"
    /\ chans' = [chans EXCEPT ![fwdReq[s].ch].closes = Bump(@)]
    /\ fpc' = [fpc EXCEPT ![s] = "idle"]
    /\ UNCHANGED <<ctxVars, runVars, regVars, fwdOf,
                   rdErr, nCalls, doneAtCall, myCh, fwdReq, fwdResp, inflight, engLog, got, ioVars, sigVars, recVars>>

\* return <-req.respCh (part_000:40) on a closed channel: the zero status.
ExecRecvClosed(s) ==
    /\ pc[s] = "wait"
    /\ chans[myCh[s]].closes > 0
    /\ got' = [got EXCEPT ![s] = [line |-> nCalls[s], st |-> 0, how |-> "closed"]]
    /\ pc' = [pc EXCEPT ![s] = AfterExec(s, 0)]
    /\ UNCHANGED <<ctxVars, engOf, runErr, reqClosed, regVars, fwdVars,
                   rdErr, nCalls, doneAtCall, myCh, fwdReq, fwdResp, chans, inflight, engLog, ioVars, sigVars, recVars>>

\* ------------------------------------------- Run's prefix write and read
RunAfterReadNoZeroCheck(s, r) ==
    IF r.err \notin {"nil", "EOF"}
      THEN /\ runErr' = [runErr EXCEPT ![s] = r.err]
           /\ pc' = [pc EXCEPT ![s] = "ret"]
           /\ UNCHANGED <<engOf, reqClosed, dispVars>>
      ELSE /\ CallExec(s, r.err)
           /\ UNCHANGED <<engOf, runErr, reqClosed>>

\* Run after n, err = ui.Read(b) returned r (ui.go:223-235): an error other than
\* EOF or a read of zero bytes ends the loop, anything else is executed.
RunAfterRead(s, r) ==
    IF r.err \notin {"nil", "EOF"}
      THEN /\ runErr' = [runErr EXCEPT ![s] = r.err]
           /\ pc' = [pc EXCEPT ![s] = "ret"]
           /\ UNCHANGED <<engOf, reqClosed, dispVars>>
      ELSE IF r.n = 0
             THEN /\ pc' = [pc EXCEPT ![s] = "newline"]
                  /\ rdErr' = [rdErr EXCEPT ![s] = r.err]
                  /\ UNCHANGED <<engOf, runErr, reqClosed, nCalls, doneAtCall, myCh,
                                 fwdReq, fwdResp, chans, inflight, engLog, got>>
             ELSE /\ CallExec(s, r.err)
                  /\ UNCHANGED <<engOf, runErr, reqClosed>>

\* Run after _, err = ui.Write(nil) returned r (ui.go:215-223): an error is
\* wrapped and returned, otherwise Run calls ui.Read.
RunAfterWrite(s, r, ws) ==
    IF r.err # "nil"
      THEN /\ runErr' = [runErr EXCEPT ![s] = r.err]
           /\ pc' = [pc EXCEPT ![s] = "ret"]
           /\ workers' = ws
           /\ UNCHANGED <<engOf, reqClosed>>
      ELSE /\ pc' = [pc EXCEPT ![s] = "read"]
           /\ workers' = [ws EXCEPT ![s] = Append(@,
                 [op |-> "read", pc |-> "prim", res |-> ReadPrim(s), buf |-> FALSE,
                  closed |-> FALSE, late |-> UIDone(s)])]
           /\ UNCHANGED <<engOf, runErr, reqClosed>>

\* The top of the run loop (ui.go:213-223): ui.Write(nil) returns at once when
\* there is no prefix (ui.go:354-357) and Run calls ui.Read; with a prefix it
\* starts writeAsync and waits in its select.
RunPrefix(s) ==
    /\ pc[s] = "prefix"
    /\ IF hasPrefix[s]
         THEN /\ Spawn(s, "write", WritePrim(s))
              /\ pc' = [pc EXCEPT ![s] = "write"]
         ELSE /\ Spawn(s, "read", ReadPrim(s))
              /\ pc' = [pc EXCEPT ![s] = "read"]
    /\ UNCHANGED <<ctxVars, engOf, runErr, reqClosed, regVars, fwdVars, dispVars,
                   inLen, inEnd, outMode, hasPrefix, newlines, ioRes, sigVars, recVars>>

WriteCtxDoneNilErr(s) ==
    /\ pc[s] = "write"
    /\ UIDone(s)
    /\ ioRes' = [ioRes EXCEPT ![s] = Res(0, "nil")]
    /\ RunAfterWrite(s, Res(0, "nil"), workers)
    /\ UNCHANGED <<ctxVars, regVars, fwdVars, dispVars,
                   inLen, inEnd, outMode, hasPrefix, newlines, sigVars, recVars>>

\* case <-ui.ctx.Done(): err = ui.ctx.Err() in Write (ui.go:363-365)
WriteCtxDone(s) ==
    /\ pc[s] = "write"
    /\ UIDone(s)
    /\ ioRes' = [ioRes EXCEPT ![s] = Res(0, "ctx")]
    /\ RunAfterWrite(s, Res(0, "ctx"), workers)
    /\ UNCHANGED <<ctxVars, regVars, fwdVars, dispVars,
                   inLen, inEnd, outMode, hasPrefix, newlines, sigVars, recVars>>

\* case resp := <-writeCh (ui.go:366-368) with the goroutine's value in it
WriteRecv(s) ==
    /\ pc[s] = "write"
    /\ workers[s][Cur(s)].buf
    /\ ioRes' = [ioRes EXCEPT ![s] = workers[s][Cur(s)].res]
    /\ RunAfterWrite(s, workers[s][Cur(s)].res,
                     [workers EXCEPT ![s][Cur(s)].buf = FALSE])
    /\ UNCHANGED <<ctxVars, regVars, fwdVars, dispVars,
                   inLen, inEnd, outMode, hasPrefix, newlines, sigVars, recVars>>

\* case resp := <-writeCh on the closed, empty channel: the zero ioResp
WriteRecvClosed(s) ==
    /\ pc[s] = "write"
    /\ workers[s][Cur(s)].closed
    /\ ~workers[s][Cur(s)].buf
    /\ ioRes' = [ioRes EXCEPT ![s] = Res(0, "nil")]
    /\ RunAfterWrite(s, Res(0, "nil"), workers)
    /\ UNCHANGED <<ctxVars, regVars, fwdVars, dispVars,
                   inLen, inEnd, outMode, hasPrefix, newlines, sigVars, recVars>>

ReadCtxDoneNilErr(s) ==
    /\ pc[s] = "read"
    /\ UIDone(s)
    /\ ioRes' = [ioRes EXCEPT ![s] = Res(0, "nil")]
    /\ RunAfterRead(s, Res(0, "nil"))
    /\ UNCHANGED <<ctxVars, regVars, fwdVars,
                   inLen, inEnd, outMode, hasPrefix, newlines, workers, sigVars, recVars>>

\* case <-ui.ctx.Done(): err = ui.ctx.Err() in Read (ui.go:322-324)
ReadCtxDone(s) ==
    /\ pc[s] = "read"
    /\ UIDone(s)
    /\ ioRes' = [ioRes EXCEPT ![s] = Res(0, "ctx")]
    /\ RunAfterRead(s, Res(0, "ctx"))
    /\ UNCHANGED <<ctxVars, regVars, fwdVars,
                   inLen, inEnd, outMode, hasPrefix, newlines, workers, sigVars, recVars>>

\* case resp := <-readCh (ui.go:325-327) with the goroutine's value in it
ReadRecv(s) ==
    /\ pc[s] = "read"
    /\ workers[s][Cur(s)].buf
    /\ ioRes' = [ioRes EXCEPT ![s] = workers[s][Cur(s)].res]
    /\ workers' = [workers EXCEPT ![s][Cur(s)].buf = FALSE]
    /\ RunAfterRead(s, workers[s][Cur(s)].res)
    /\ UNCHANGED <<ctxVars, regVars, fwdVars,
                   inLen, inEnd, outMode, hasPrefix, newlines, sigVars, recVars>>

\* case resp := <-readCh on the closed, empty channel: the zero ioResp
ReadRecvClosed(s) ==
    /\ pc[s] = "read"
    /\ workers[s][Cur(s)].closed
    /\ ~workers[s][Cur(s)].buf
    /\ ioRes' = [ioRes EXCEPT ![s] = Res(0, "nil")]
    /\ RunAfterRead(s, Res(0, "nil"))
    /\ UNCHANGED <<ctxVars, regVars, fwdVars,
                   inLen, inEnd, outMode, hasPrefix, newlines, workers, sigVars, recVars>>

RunNewlineKeepsErr(s) ==
    /\ pc[s] = "newline"
    /\ WritePrim(s) # Blocked
    /\ newlines' = [newlines EXCEPT ![s] = @ + 1]
    /\ runErr' = [runErr EXCEPT ![s] = IF WritePrim(s).err = "nil" THEN rdErr[s] ELSE "newLineErr"]
    /\ pc' = [pc EXCEPT ![s] = "ret"]
    /\ UNCHANGED <<ctxVars, engOf, reqClosed, regVars, fwdVars, dispVars,
                   inLen, inEnd, outMode, hasPrefix, workers, ioRes, sigVars, recVars>>

RunNewlineSkipped(s) ==
    /\ pc[s] = "newline"
    /\ runErr' = [runErr EXCEPT ![s] = "nil"]
    /\ pc' = [pc EXCEPT ![s] = "ret"]
    /\ UNCHANGED <<ctxVars, engOf, reqClosed, regVars, fwdVars, dispVars, ioVars, sigVars, recVars>>

\* Run's deferred function (ui.go:202-210) on the graceful path: the newline
\* goes to ui.o itself, not through ui.Write: the step waits for ui.o's Write
\* to return, and a failed write becomes a newLineErr.
RunNewline(s) ==
    /\ pc[s] = "newline"
    /\ WritePrim(s) # Blocked
    /\ newlines' = [newlines EXCEPT ![s] = @ + 1]
    /\ runErr' = [runErr EXCEPT ![s] = IF WritePrim(s).err = "nil" THEN "nil" ELSE "newLineErr"]
    /\ pc' = [pc EXCEPT ![s] = "ret"]
    /\ UNCHANGED <<ctxVars, engOf, reqClosed, regVars, fwdVars, dispVars,
                   inLen, inEnd, outMode, hasPrefix, workers, ioRes, sigVars, recVars>>

InitDispVars ==
    /\ rdErr = [s \in Sessions |-> "nil"]
    /\ nCalls = [s \in Sessions |-> 0]
    /\ doneAtCall = [s \in Sessions |-> FALSE]
    /\ myCh = [s \in Sessions |-> NoChan]
    /\ fwdReq = [s \in Sessions |-> NoReq]
    /\ fwdResp = [s \in Sessions |-> 0]
    /\ chans = [c \in ChanIds |-> [uses |-> 0, sent |-> FALSE, sends |-> 0, closes |-> 0]]
    /\ inflight = [s \in Sessions |-> 0]
    /\ engLog = [s \in Sessions |-> [line |-> 0, st |-> 0]]
    /\ got = [s \in Sessions |-> [line |-> 0, st |-> 0, how |-> "none"]]


\* ------------------------------------------------------------ IsRecoverable
\* The most wrappers around an error value.
MaxWrap == 3

\* The error values: a base error under wrappers, the outermost first. "wrap"
\* is errors.Wrap of github.com/pkg/errors, "nl" is newLineErr{werr: ...}
\* (ui.go:144-151). The base errors are nil, context.Canceled,
\* context.DeadlineExceeded, a net.Error, a runtime.Error and any other error.
BaseErrs == {"nil", "canceled", "deadline", "net", "runtime", "other"}
Err(ws, b) == [wraps |-> ws, base |-> b]
NilErr == Err(<<>>, "nil")
NoResult == <<>>

\* errors.Cause(err) (ui.go:49): takes off the wrappers that have a Cause
\* method, those of errors.Wrap; newLineErr has none.
RECURSIVE Cause(_)
Cause(e) ==
    IF e.wraps # <<>> /\ Head(e.wraps) = "wrap"
      THEN Cause(Err(Tail(e.wraps), e.base))
      ELSE e

\* The type switch at errTypes (ui.go:57-65): a net.Error or a runtime.Error
\* returns ok false; a newLineErr is replaced by its werr and the switch runs
\* again; anything else, an errors.Wrap value included, is ok.
\* context.DeadlineExceeded has Timeout and Temporary methods: it is a net.Error.
RECURSIVE ErrTypes(_)
ErrTypes(root) ==
    IF root.wraps # <<>>
      THEN IF Head(root.wraps) = "nl"
             THEN ErrTypes(Err(Tail(root.wraps), root.base))
             ELSE [root |-> root, ok |-> TRUE]
      ELSE IF root.base \in {"net", "deadline", "runtime"}
             THEN [root |-> root, ok |-> FALSE]
             ELSE [root |-> root, ok |-> TRUE]

\* IsRecoverable(err) (ui.go:44-68)
IsRecoverable(e) ==
    IF e = NilErr
      THEN [root |-> NilErr, ok |-> TRUE]
      ELSE LET root == Cause(e)
           IN  IF root = Err(<<>>, "deadline") \/ root = Err(<<>>, "canceled")
                 THEN [root |-> root, ok |-> TRUE]
                 ELSE ErrTypes(root)

\* errors.Wrap(err, msg), as Run does at ui.go:170, 217: nil stays nil.
WrapErr ==
    /\ recOut = NoResult
    /\ recIn # NilErr
    /\ Len(recIn.wraps) < MaxWrap
    /\ recIn' = Err(<<"wrap">> \o recIn.wraps, recIn.base)
    /\ UNCHANGED <<ctxVars, runVars, regVars, fwdVars, dispVars, ioVars, sigVars, recOut>>

\* err = newLineErr{werr: err} for err != nil (ui.go:205-207)
NewLineErr ==
    /\ recOut = NoResult
    /\ recIn # NilErr
    /\ Len(recIn.wraps) < MaxWrap
    /\ recIn' = Err(<<"nl">> \o recIn.wraps, recIn.base)
    /\ UNCHANGED <<ctxVars, runVars, regVars, fwdVars, dispVars, ioVars, sigVars, recOut>>

\* The caller calls IsRecoverable on its error.
CallIsRecoverable ==
    /\ recOut = NoResult
    /\ recOut' = <<IsRecoverable(recIn)>>
    /\ UNCHANGED <<ctxVars, runVars, regVars, fwdVars, dispVars, ioVars, sigVars, recIn>>

InitRecVars ==
    /\ recIn = NilErr
    /\ recOut = NoResult

\* ----------------------------------------------------------- signal monitor
\* os.Interrupt, os.Kill and some other signal.
Signals == {"interrupt", "kill", "hup"}
NoSignal == "none"

\* SignalHandler values (ui.go:73): a handler that returns its argument, one
\* that always returns os.Interrupt, one that always returns another signal.
Handlers == {"same", "toInterrupt", "toHup"}

Apply(h, sig) ==
    CASE h = "same" -> sig
      [] h = "toInterrupt" -> "interrupt"
      [] h = "toHup" -> "hup"

\* The tables WithSignalHandlers can set: any signals, any handlers.
HandlerTables == UNION {[D -> Handlers] : D \in SUBSET Signals}

EffectiveUnhandled(s, sig) == sig

\* handler, exists := ui.sigHandlers[sig]; if exists { sig = handler(sig) }
\* (ui.go:281-284)
Effective(s, sig) ==
    IF sig \in DOMAIN sigHandlers[s] THEN Apply(sigHandlers[s][sig], sig) ELSE sig

\* The runtime relays a signal to sigs (signal.Notify, ui.go:273): it does not
\* block, a signal that finds the channel full is dropped.
SigDeliver(s, sig) ==
    /\ Len(sigCh[s]) < 1
    /\ sigCh' = [sigCh EXCEPT ![s] = Append(@, sig)]
    /\ UNCHANGED <<ctxVars, runVars, regVars, fwdVars, dispVars, ioVars,
                   sigHandlers, sigSeen, mon, recVars>>

\* case sig := <-sigCh (ui.go:280-287): transform, then cancel on os.Kill or
\* os.Interrupt.
MonitorSignal(s) ==
    /\ mon[s] = "select"
    /\ Len(sigCh[s]) > 0
    /\ sigCh' = [sigCh EXCEPT ![s] = Tail(@)]
    /\ LET sig == Head(sigCh[s])
           stop == Effective(s, sig) \in {"kill", "interrupt"}
       IN  /\ sigSeen' = [sigSeen EXCEPT ![s] = [sig |-> sig, cancel |-> stop]]
           /\ uiCancelled' = [uiCancelled EXCEPT ![s] = @ \/ stop]
    /\ UNCHANGED <<ctxArg, parentDone, runVars, regVars, fwdVars, dispVars, ioVars,
                   sigHandlers, mon, recVars>>

\* case <-ctx.Done(): (ui.go:279): the case has no statements.
MonitorCtxDone(s) ==
    /\ mon[s] = "select"
    /\ UIDone(s)
    /\ mon' = [mon EXCEPT ![s] = "ctxDone"]
    /\ UNCHANGED <<ctxVars, runVars, regVars, fwdVars, dispVars, ioVars,
                   sigHandlers, sigCh, sigSeen, recVars>>

\* The end of the case's body: the for loop (ui.go:277) goes round to the select.
MonitorLoop(s) ==
    /\ mon[s] = "ctxDone"
    /\ mon' = [mon EXCEPT ![s] = "select"]
    /\ UNCHANGED <<ctxVars, runVars, regVars, fwdVars, dispVars, ioVars,
                   sigHandlers, sigCh, sigSeen, recVars>>

InitSigVars ==
    /\ sigHandlers = [s \in Sessions |-> <<>>]
    /\ sigCh = [s \in Sessions |-> <<>>]
    /\ sigSeen = [s \in Sessions |-> [sig |-> NoSignal, cancel |-> FALSE]]
    /\ mon = [s \in Sessions |-> "select"]

\* Sessions whose Run was called with the caller's context and has started the
\* monitor (ui.go:198), all configured with the same handler table, any table.
InitSignal ==
    /\ ctxArg = [s \in Sessions |-> "c1"]
    /\ parentDone = [c \in Ctxs |-> FALSE]
    /\ uiCancelled = [s \in Sessions |-> FALSE]
    /\ pc = [s \in Sessions |-> "start"]
    /\ engOf = [s \in Sessions |-> "e1"]
    /\ runErr = [s \in Sessions |-> "none"]
    /\ reqClosed = [s \in Sessions |-> FALSE]
    /\ mu = Unlocked
    /\ engs = [e \in Engines |-> None]
    /\ runners = <<>>
    /\ hand = [s \in Sessions |-> None]
    /\ fpc = [s \in Sessions |-> "none"]
    /\ fwdOf = [s \in Sessions |-> None]
    /\ InitDispVars
    /\ InitIOVars
    /\ \E h \in HandlerTables : sigHandlers = [s \in Sessions |-> h]
    /\ sigCh = [s \in Sessions |-> <<>>]
    /\ sigSeen = [s \in Sessions |-> [sig |-> NoSignal, cancel |-> FALSE]]
    /\ mon = [s \in Sessions |-> "select"]
    /\ InitRecVars

NextSignal ==
    \/ \E c \in Ctxs : CancelParent(c)
    \/ \E s \in Sessions, sig \in Signals : SigDeliver(s, sig)
    \/ \E s \in Sessions : MonitorSignal(s)
    \/ \E s \in Sessions : MonitorCtxDone(s)
    \/ \E s \in Sessions : MonitorLoop(s)

SpecSignal == InitSignal /\ [][NextSignal]_vars

\* The monitor goroutine is scheduled: when it can take a step it takes one.
FairSignal ==
    \A s \in Sessions :
        WF_vars(MonitorSignal(s) \/ MonitorCtxDone(s) \/ MonitorLoop(s))

FairSpecSignal == SpecSignal /\ FairSignal

\* ------------------------------------------- dispatch: exec and forwarding
\* Sessions attached to one engine: the state after every session's hand-off
\* was received by the runner that session 1's startEngine started.
InitDispatch ==
    /\ ctxArg \in [Sessions -> Ctxs \cup {Nil}]
    /\ parentDone = [c \in Ctxs |-> FALSE]
    /\ uiCancelled = [s \in Sessions |-> FALSE]
    /\ pc = [s \in Sessions |-> "prefix"]
    /\ engOf = [s \in Sessions |-> "e1"]
    /\ runErr = [s \in Sessions |-> "none"]
    /\ reqClosed = [s \in Sessions |-> FALSE]
    /\ mu = Unlocked
    /\ engs = [e \in Engines |-> IF e = "e1" THEN 1 ELSE None]
    /\ runners = <<[eng |-> "e1", creator |-> 1, pc |-> "select", closed |-> FALSE]>>
    /\ hand = [s \in Sessions |-> 1]
    /\ fpc = [s \in Sessions |-> "idle"]
    /\ fwdOf = [s \in Sessions |-> 1]
    /\ InitDispVars
    /\ InitIOVars
    /\ InitSigVars
    /\ InitRecVars

NextDispatch ==
    \/ \E c \in Ctxs : CancelParent(c)
    \/ \E s \in Sessions : MonitorCancel(s)
    \/ \E s \in Sessions : ExecCall(s, "nil")
    \/ \E s \in Sessions : ExecCtxDone(s)
    \/ \E s \in Sessions : ExecSend(s)
    \/ \E s \in Sessions : FwdExec(s)
    \/ \E s, t \in Sessions : FwdDeliver(s, t)
    \/ \E s \in Sessions : FwdDeliverCancel(s)
    \/ \E s \in Sessions : FwdClose(s)
    \/ \E s \in Sessions : ExecRecvClosed(s)
    \/ \E s \in Sessions : RunNewline(s)
    \/ \E s \in Sessions : RunLoopEnds(s)
    \/ \E s \in Sessions : RunReturn(s)
    \/ \E s \in Sessions : FwdRangeEnd(s)

SpecDispatch == InitDispatch /\ [][NextDispatch]_vars

\* --------------------------------------------- attach: registry and runner
\* Sessions that call Run with one engine and any context, up to the return of
\* startEngine (ui.go:199) or the panic of its send; contexts are cancelled at
\* any moment, which covers the cancel() of a Run that returns.
InitAttach ==
    /\ ctxArg \in [Sessions -> Ctxs \cup {Nil}]
    /\ parentDone = [c \in Ctxs |-> FALSE]
    /\ uiCancelled = [s \in Sessions |-> FALSE]
    /\ pc = [s \in Sessions |-> "start"]
    /\ engOf = [s \in Sessions |-> "e1"]
    /\ runErr = [s \in Sessions |-> "none"]
    /\ reqClosed = [s \in Sessions |-> FALSE]
    /\ mu = Unlocked
    /\ engs = [e \in Engines |-> None]
    /\ runners = <<>>
    /\ hand = [s \in Sessions |-> None]
    /\ fpc = [s \in Sessions |-> "none"]
    /\ fwdOf = [s \in Sessions |-> None]
    /\ InitDispVars
    /\ InitIOVars
    /\ InitSigVars
    /\ InitRecVars

NextAttach ==
    \/ \E c \in Ctxs : CancelParent(c)
    \/ \E s \in Sessions : MonitorCancel(s)
    \/ \E s \in Sessions : StartEngineLock(s)
    \/ \E s \in Sessions : StartEngineLookup(s)
    \/ \E s \in Sessions : StartEnginePanic(s)
    \/ \E r \in RunnerIds, s \in Sessions : RunnerAccept(r, s)
    \/ \E r \in RunnerIds : RunnerCtxDone(r)
    \/ \E r \in RunnerIds : RunnerLock(r)
    \/ \E r \in RunnerIds : RunnerDelete(r)

SpecAttach == InitAttach /\ [][NextAttach]_vars

\* Goroutines are scheduled: a runner or a startEngine call that can take a step
\* takes one. Cancellations are the environment's.
FairAttach ==
    /\ \A s \in Sessions :
          WF_vars(StartEngineLock(s) \/ StartEngineLookup(s) \/ StartEnginePanic(s))
    /\ \A r \in 1..NumSessions :
          WF_vars(r \in RunnerIds /\
                  (RunnerCtxDone(r) \/ RunnerLock(r) \/ RunnerDelete(r)
                     \/ \E s \in Sessions : RunnerAccept(r, s)))

FairSpecAttach == SpecAttach /\ FairAttach

\* ------------------------------------------------------- run: the whole Run
\* Session 1 calls Run with any context, any finite input, any output and with
\* or without a prefix. The other sessions ran with a nil context on the same
\* engine and have returned; the runner session 2 started is torn down.
InitRun ==
    /\ \E c \in Ctxs \cup {Nil} : ctxArg = [s \in Sessions |-> IF s = 1 THEN c ELSE Nil]
    /\ parentDone = [c \in Ctxs |-> FALSE]
    /\ uiCancelled = [s \in Sessions |-> s # 1]
    /\ pc = [s \in Sessions |-> IF s = 1 THEN "start" ELSE "returned"]
    /\ engOf = [s \in Sessions |-> "e1"]
    /\ runErr = [s \in Sessions |-> IF s = 1 THEN "none" ELSE "nil"]
    /\ reqClosed = [s \in Sessions |-> s # 1]
    /\ mu = Unlocked
    /\ engs = [e \in Engines |-> None]
    /\ runners = <<[eng |-> "e1", creator |-> 2, pc |-> "done", closed |-> TRUE]>>
    /\ hand = [s \in Sessions |-> IF s = 1 THEN None ELSE 1]
    /\ fpc = [s \in Sessions |-> IF s = 1 THEN "none" ELSE "done"]
    /\ fwdOf = [s \in Sessions |-> IF s = 1 THEN None ELSE 1]
    /\ InitDispVars
    /\ \E n \in 0..MaxLines : inLen = [s \in Sessions |-> IF s = 1 THEN n ELSE 0]
    /\ \E e \in {"EOF", "dataEOF", "err", "block"} :
          inEnd = [s \in Sessions |-> IF s = 1 THEN e ELSE "EOF"]
    /\ \E o \in {"ok", "err", "block"} :
          outMode = [s \in Sessions |-> IF s = 1 THEN o ELSE "ok"]
    /\ \E p \in BOOLEAN : hasPrefix = [s \in Sessions |-> s = 1 /\ p]
    /\ workers = [s \in Sessions |-> <<>>]
    /\ ioRes = [s \in Sessions |-> Res(0, "none")]
    /\ newlines = [s \in Sessions |-> IF s = 1 THEN 0 ELSE 1]
    /\ InitSigVars
    /\ InitRecVars

\* The steps of session s's Run goroutine.
RunStep(s) ==
    \/ StartEngineLock(s)
    \/ StartEngineLookup(s)
    \/ StartEnginePanic(s)
    \/ RunPrefix(s)
    \/ WriteCtxDone(s)
    \/ WriteRecv(s)
    \/ WriteRecvClosed(s)
    \/ ReadCtxDone(s)
    \/ ReadRecv(s)
    \/ ReadRecvClosed(s)
    \/ ExecCtxDone(s)
    \/ ExecSend(s)
    \/ ExecRecvClosed(s)
    \/ RunNewline(s)
    \/ RunReturn(s)

\* The steps of the goroutines Run started or met: the runners, the forwarding
\* goroutines, the read and write goroutines.
HelperStep ==
    \/ \E r \in RunnerIds, s \in Sessions : RunnerAccept(r, s)
    \/ \E r \in RunnerIds : RunnerCtxDone(r)
    \/ \E r \in RunnerIds : RunnerLock(r)
    \/ \E r \in RunnerIds : RunnerDelete(r)
    \/ \E s \in Sessions : FwdExec(s)
    \/ \E s, t \in Sessions : FwdDeliver(s, t)
    \/ \E s \in Sessions : FwdDeliverCancel(s)
    \/ \E s \in Sessions : FwdClose(s)
    \/ \E s \in Sessions : FwdRangeEnd(s)
    \/ \E s \in Sessions : \E w \in DOMAIN workers[s] : WorkerSend(s, w)
    \/ \E s \in Sessions : \E w \in DOMAIN workers[s] : WorkerDrop(s, w)

NextRun ==
    \/ \E c \in Ctxs : CancelParent(c)
    \/ \E s \in Sessions : MonitorCancel(s)
    \/ \E s \in Sessions : RunStep(s)
    \/ HelperStep

SpecRun == InitRun /\ [][NextRun]_vars

\* Goroutines are scheduled and the engine's Exec returns: a forwarding
\* goroutine that can take a step takes one. Run's own steps, the stream
\* primitives and the cancellations are left to the environment.
FairRun ==
    \A s \in Sessions :
        WF_vars(FwdExec(s) \/ (\E t \in Sessions : FwdDeliver(s, t))
                  \/ FwdDeliverCancel(s) \/ FwdClose(s) \/ FwdRangeEnd(s))

FairSpecRun == SpecRun /\ FairRun

\* --------------------------------------------- registry: several engines
\* Sessions call Run with either engine or with none, with any contexts.
InitRegistry ==
    /\ ctxArg \in [Sessions -> Ctxs \cup {Nil}]
    /\ parentDone = [c \in Ctxs |-> FALSE]
    /\ uiCancelled = [s \in Sessions |-> FALSE]
    /\ pc = [s \in Sessions |-> "start"]
    /\ engOf \in [Sessions -> Engines \cup {NoEngine}]
    /\ runErr = [s \in Sessions |-> "none"]
    /\ reqClosed = [s \in Sessions |-> FALSE]
    /\ mu = Unlocked
    /\ engs = [e \in Engines |-> None]
    /\ runners = <<>>
    /\ hand = [s \in Sessions |-> None]
    /\ fpc = [s \in Sessions |-> "none"]
    /\ fwdOf = [s \in Sessions |-> None]
    /\ InitDispVars
    /\ InitIOVars
    /\ InitSigVars
    /\ InitRecVars

NextRegistry ==
    \/ \E c \in Ctxs : CancelParent(c)
    \/ \E s \in Sessions : MonitorCancel(s)
    \/ \E s \in Sessions : RunNoEngine(s)
    \/ \E s \in Sessions : StartEngineLock(s)
    \/ \E s \in Sessions : StartEngineLookup(s)
    \/ \E s \in Sessions : StartEnginePanic(s)
    \/ \E r \in RunnerIds, s \in Sessions : RunnerAccept(r, s)
    \/ \E r \in RunnerIds : RunnerCtxDone(r)
    \/ \E r \in RunnerIds : RunnerLock(r)
    \/ \E r \in RunnerIds : RunnerDelete(r)

SpecRegistry == InitRegistry /\ [][NextRegistry]_vars

\* ------------------------------------------------- recover: IsRecoverable
\* A caller holds one of the base errors, wraps it as Run does and asks
\* IsRecoverable about it; no Run is in progress.
InitRecover ==
    /\ ctxArg = [s \in Sessions |-> Nil]
    /\ parentDone = [c \in Ctxs |-> FALSE]
    /\ uiCancelled = [s \in Sessions |-> FALSE]
    /\ pc = [s \in Sessions |-> "start"]
    /\ engOf = [s \in Sessions |-> "e1"]
    /\ runErr = [s \in Sessions |-> "none"]
    /\ reqClosed = [s \in Sessions |-> FALSE]
    /\ mu = Unlocked
    /\ engs = [e \in Engines |-> None]
    /\ runners = <<>>
    /\ hand = [s \in Sessions |-> None]
    /\ fpc = [s \in Sessions |-> "none"]
    /\ fwdOf = [s \in Sessions |-> None]
    /\ InitDispVars
    /\ InitIOVars
    /\ InitSigVars
    /\ recIn \in {Err(<<>>, b) : b \in BaseErrs}
    /\ recOut = NoResult

NextRecover ==
    \/ WrapErr
    \/ NewLineErr
    \/ CallIsRecoverable

SpecRecover == InitRecover /\ [][NextRecover]_vars

\* ------------------------------------------------------------------ claims
LiveRunners(e) == {r \in RunnerIds : runners[r].eng = e /\ runners[r].pc # "done"}

\* C1: in every reachable state each engine identity has at most one live
\* runner (a runEngine goroutine that has not yet removed its registry entry).
C1_OneLiveRunner ==
    \A e \in Engines : Cardinality(LiveRunners(e)) <= 1

\* C1's case: a second runner for an engine after the first was torn down,
\* with two sessions having called startEngine for it.
C1_Witness ==
    \E r1, r2 \in RunnerIds :
        /\ r1 # r2
        /\ runners[r1].eng = runners[r2].eng
        /\ runners[r1].pc = "done"
        /\ runners[r2].pc = "select"

\* C2: every startEngine call finishes: a session at the hand-off (ui.go:267)
\* is eventually past it, its channel received by the runner or the send
\* failed because the runner exited and closed the intake channel.
C2_HandoffFinishes ==
    \A s \in Sessions :
        (pc[s] = "handoff") ~> (fpc[s] # "none" \/ runErr[s] = "panic")

\* C2's case: one hand-off was received and another failed on the runner's exit.
C2_Witness ==
    \E s1, s2 \in Sessions :
        /\ fpc[s1] # "none"
        /\ runErr[s2] = "panic"
        /\ hand[s1] = hand[s2]

\* Every runner started for e has finished tearing down (intake channel closed,
\* registry entry deleted: part_000:45-50).
TornDown(e) ==
    /\ \E r \in RunnerIds : runners[r].eng = e
    /\ \A r \in RunnerIds : runners[r].eng = e => runners[r].pc = "done"

\* C3: after a runner was torn down, the next startEngine for its engine (the
\* call that holds the registry lock) makes a new registry entry and a new
\* runner, and while its context stays live its hand-off is received by that
\* new runner.
C3_FreshRunnerAfterTeardown ==
    /\ [][\A s \in Sessions :
            (pc[s] = "lookup" /\ TornDown(engOf[s]) /\ pc'[s] = "handoff")
                => /\ Len(runners') = Len(runners) + 1
                   /\ runners'[Len(runners')].pc = "select"
                   /\ ~runners'[Len(runners')].closed
                   /\ engs'[engOf[s]] = Len(runners')
                   /\ hand'[s] = Len(runners')]_vars
    /\ \A s \in Sessions :
            (pc[s] = "lookup" /\ TornDown(engOf[s]) /\ ~RootDone(s))
                ~> \/ fpc[s] # "none" /\ runners[hand[s]].creator = s
                   \/ RootDone(s)

\* C3's case: a session's channel was received by a runner it started itself
\* after an earlier runner of the same engine had been torn down.
C3_Witness ==
    \E s \in Sessions :
        /\ fpc[s] # "none"
        /\ hand[s] > 1
        /\ runners[hand[s]].creator = s
        /\ \A r \in 1..(hand[s] - 1) :
               runners[r].eng = engOf[s] /\ runners[r].pc = "done"
\* C4: when neither the session's context nor the runner's root context is
\* done, an exec call that returned got a value, and it is the status eng.Exec
\* returned for that call's own line, not the status of another session's line.
C4_OwnStatus ==
    \A s \in Sessions :
        (got[s].how # "none" /\ ~UIDone(s) /\ ~RunnerDone(fwdOf[s]))
            => /\ got[s].how = "value"
               /\ engLog[s].line >= got[s].line
               /\ engLog[s].line = got[s].line => got[s].st = engLog[s].st

\* C4's case: two sessions of one engine with exec calls outstanding together
\* and different statuses; one has received its own, the other's is pending.
C4_Witness ==
    \E s1, s2 \in Sessions :
        /\ s1 # s2
        /\ fwdOf[s1] = fwdOf[s2]
        /\ got[s1] = [line |-> 1, st |-> 1, how |-> "value"]
        /\ engLog[s1] = [line |-> 1, st |-> 1]
        /\ pc[s2] = "wait" /\ fpc[s2] = "deliver" /\ fwdResp[s2] = 0
        /\ \A c \in Ctxs : ~parentDone[c]
        /\ \A s \in Sessions : ~uiCancelled[s]

\* C5: an exec call made when ui.ctx was already done sends no request (the
\* forwarding goroutine never holds that call's request) and returns zero
\* through the ctx.Done case.
C5_NoSendWhenDone ==
    \A s \in Sessions :
        (nCalls[s] > 0 /\ doneAtCall[s])
            => /\ pc[s] # "wait"
               /\ fwdReq[s].line # nCalls[s]
               /\ got[s].line = nCalls[s] => got[s].how = "ctx"

\* The exec call that made channel c has returned and the forwarding goroutine
\* is not handling c's request.
Finished(c) ==
    /\ chans[c].uses > 0
    /\ \/ nCalls[c[1]] > c[2]
       \/ nCalls[c[1]] = c[2] /\ pc[c[1]] \notin {"exec", "wait"}
    /\ ~(fwdReq[c[1]].ch = c /\ fpc[c[1]] \in {"exec", "deliver", "close"})

\* C6 as stated: every response channel is made by one exec call, carries at
\* most one value, and once its call is over has been closed exactly once.
C6_ClosedExactlyOnce ==
    \A c \in ChanIds :
        /\ chans[c].uses <= 1
        /\ chans[c].sends <= 1
        /\ chans[c].closes <= 1
        /\ Finished(c) => chans[c].closes = 1

\* C6, amended: every response channel is made by one exec call and never used
\* by another, carries at most one value, is never sent on after it was closed,
\* and is closed at most once: exactly once when its request was sent and the
\* forwarding goroutine is through with it, never when exec returned on the
\* done context without sending.
C6_RespChOnce ==
    /\ \A c \in ChanIds :
          /\ chans[c].uses <= 1
          /\ chans[c].sends <= 1
          /\ chans[c].closes <= 1
          /\ (Finished(c) /\ chans[c].sent) => chans[c].closes = 1
          /\ ~chans[c].sent => (chans[c].closes = 0 /\ chans[c].sends = 0)
    /\ \A s \in Sessions :
          fpc[s] = "deliver" => chans[fwdReq[s].ch].closes = 0

\* C6's case: one channel that carried its value and was closed after it, one
\* that the cancel branch closed without a value, one that was never sent.
C6_Witness ==
    \E c, d, e \in ChanIds :
        /\ chans[c].sent /\ chans[c].sends = 1 /\ chans[c].closes = 1
        /\ chans[d].sent /\ chans[d].sends = 0 /\ chans[d].closes = 1
        /\ chans[e].uses = 1 /\ ~chans[e].sent /\ Finished(e)

\* C7: for each session at most one eng.Exec call is in flight, the calls
\* return in the order of the session's lines, and the forwarding goroutine
\* takes a request only after the response channel of the one before was
\* written or closed.
C7_PerSessionOrder ==
    /\ [](\A s \in Sessions : inflight[s] <= 1)
    /\ [][\A s \in Sessions :
            /\ inflight'[s] < inflight[s] => engLog'[s].line > engLog[s].line
            /\ fwdReq'[s] # fwdReq[s] =>
                  /\ fwdReq'[s].line > fwdReq[s].line
                  /\ fwdReq[s] # NoReq =>
                        chans[fwdReq[s].ch].sends + chans[fwdReq[s].ch].closes >= 1]_vars

\* C7's case: two sessions of one engine with eng.Exec in flight at the same
\* moment, one of them for its second line after its first returned.
C7_Witness ==
    \E s1, s2 \in Sessions :
        /\ s1 # s2
        /\ fwdOf[s1] = fwdOf[s2]
        /\ inflight[s1] = 1 /\ inflight[s2] = 1
        /\ fwdReq[s1].line = 2 /\ engLog[s1].line = 1
\* C8: once the session's context is done, Run is never stuck: until Run has
\* returned, Run itself or one of the goroutines it started or waits for can
\* take a step, so Run eventually returns.
C8_CancelledRunNotStuck ==
    \A s \in Sessions :
        (UIDone(s) /\ pc[s] # "returned") => ENABLED (RunStep(s) \/ HelperStep)

\* A Read or Write in progress that was called with the context already done
\* and whose stream call never returns.
StuckCall(s) ==
    /\ pc[s] \in {"read", "write"}
    /\ workers[s][Cur(s)].late
    /\ workers[s][Cur(s)].res = Blocked

\* C9: a Read or Write whose stream call never returns, called with the context
\* already done, can return at once, and when it returns it returns the
\* context's error and its goroutine has taken no step.
C9_CtxErrorWithoutWorker ==
    /\ [](\A s \in Sessions :
            StuckCall(s) => ENABLED (ReadCtxDone(s) \/ WriteCtxDone(s)))
    /\ [][\A s \in Sessions :
            (StuckCall(s) /\ pc'[s] # pc[s]) =>
                /\ ioRes'[s] = Res(0, "ctx")
                /\ workers'[s] = workers[s]
                /\ workers[s][Cur(s)].pc = "prim"]_vars

\* A call returned the context's error while its goroutine sits in the
\* stream's call that never returns.
C9_Witness ==
    \E s \in Sessions :
        /\ pc[s] = "ret"
        /\ ioRes[s] = Res(0, "ctx")
        /\ workers[s] # <<>>
        /\ workers[s][Cur(s)].late
        /\ workers[s][Cur(s)].res = Blocked
        /\ workers[s][Cur(s)].pc = "prim"

\* C10: the monitor calls cancel() for a received signal exactly when the
\* effective signal is os.Interrupt or os.Kill: the signal itself when no
\* handler is registered for it, the handler's result otherwise. A handled
\* interrupt mapped to another signal does not cancel, any signal mapped to
\* interrupt does; ui.ctx becomes done only through such a signal.
C10_CancelOnEffectiveSignal ==
    /\ [](\A s \in Sessions :
            sigSeen[s].sig # NoSignal =>
                LET sig == sigSeen[s].sig
                    h == sigHandlers[s]
                    stops == {"interrupt", "kill"}
                IN  /\ sig \notin DOMAIN h => (sigSeen[s].cancel <=> sig \in stops)
                    /\ sig \in DOMAIN h =>
                          /\ h[sig] = "same" => (sigSeen[s].cancel <=> sig \in stops)
                          /\ h[sig] = "toInterrupt" => sigSeen[s].cancel
                          /\ h[sig] = "toHup" => ~sigSeen[s].cancel
                    /\ sigSeen[s].cancel => uiCancelled[s])
    /\ [][\A s \in Sessions :
            (uiCancelled'[s] /\ ~uiCancelled[s]) => sigSeen'[s].cancel]_vars

\* C10's case: under one table, a received interrupt that its handler mapped
\* to another signal and left the context live, and another signal that its
\* handler mapped to interrupt and that cancelled.
C10_Witness ==
    \E s1, s2 \in Sessions :
        /\ sigSeen[s1] = [sig |-> "interrupt", cancel |-> FALSE]
        /\ sigHandlers[s1]["interrupt"] = "toHup"
        /\ ~uiCancelled[s1]
        /\ sigSeen[s2] = [sig |-> "hup", cancel |-> TRUE]
        /\ sigHandlers[s2]["hup"] = "toInterrupt"
        /\ uiCancelled[s2]

\* The reads Run has started on the input stream, and the lines of session s
\* that were dispatched to the engine.
Reads(s) == Cardinality({w \in DOMAIN workers[s] : workers[s][w].op = "read"})
Dispatched(s) == {j \in 1..MaxLines : chans[<<s, j>>].sent}

\* C11 as stated: once the engine has returned a non-zero status for the k-th
\* line, that line is the last one read and the last one dispatched.
C11_StopsAtEngineNonZero ==
    \A s \in Sessions :
        engLog[s].st # 0 =>
            /\ nCalls[s] = engLog[s].line
            /\ Reads(s) = engLog[s].line

\* C11, amended: once exec has returned a non-zero status for the k-th line,
\* the run loop has ended, k lines were read and no more, only lines up to the
\* k-th were dispatched, and all k of them when the context was never done.
C11_StopsAtNonZero ==
    \A s \in Sessions :
        got[s].st # 0 =>
            /\ pc[s] \in {"newline", "ret", "returned"}
            /\ nCalls[s] = got[s].line
            /\ Reads(s) = got[s].line
            /\ engLog[s] = [line |-> got[s].line, st |-> got[s].st]
            /\ Dispatched(s) \subseteq 1..got[s].line
            /\ ~UIDone(s) => Dispatched(s) = 1..got[s].line

\* C11's case: the second line is the first with a non-zero status, the context
\* is live and more input was there to read.
C11_Witness ==
    \E s \in Sessions :
        /\ got[s] = [line |-> 2, st |-> 1, how |-> "value"]
        /\ pc[s] = "newline"
        /\ ~UIDone(s)
        /\ inEnd[s] = "EOF"
        /\ Dispatched(s) = {1, 2}

\* C12: after a Read that returned zero bytes and io.EOF the run loop has
\* ended: that read is the last one, every read before it gave a line, and
\* nothing was dispatched for it.
C12_NoDispatchForEmptyRead ==
    \A s \in Sessions :
        ioRes[s] = Res(0, "EOF") =>
            /\ pc[s] \in {"newline", "ret", "returned"}
            /\ Reads(s) = nCalls[s] + 1
            /\ Dispatched(s) \subseteq 1..nCalls[s]
            /\ got[s].line = nCalls[s]

\* C12's case: two lines were read and dispatched, the third read reported the
\* end of the input with no bytes.
C12_Witness ==
    \E s \in Sessions :
        /\ ioRes[s] = Res(0, "EOF")
        /\ pc[s] = "newline"
        /\ nCalls[s] = 2
        /\ Reads(s) = 3
        /\ Dispatched(s) = {1, 2}

\* C13: Run returns no error for the cancellation or for the end of the input:
\* what Run returns is never the context's error and never io.EOF.
C13_NoErrorForCancelOrEOF ==
    \A s \in Sessions :
        pc[s] = "returned" => runErr[s] \notin {"ctx", "EOF"}

GracefulEnd(s) ==
    /\ pc[s] \in {"ret", "returned"}
    /\ \/ got[s].st # 0
       \/ ioRes[s].n = 0 /\ ioRes[s].err \in {"nil", "EOF"}
       \/ ioRes[s].err = "EOF"

\* The prefix writes of session s that have not reached the output yet.
PendingWrites(s) ==
    {w \in DOMAIN workers[s] : workers[s][w].op = "write" /\ workers[s][w].pc = "prim"}

\* C15: a run loop that ended gracefully made exactly one newline write; when
\* it was made no other write of Run was outstanding, and Run starts no write
\* after it.
C15_TrailingNewlineLast ==
    /\ [](\A s \in Sessions :
            /\ newlines[s] <= 1
            /\ GracefulEnd(s) => newlines[s] = 1
            /\ newlines[s] = 1 => PendingWrites(s) = {})
    /\ [][\A s \in Sessions :
            newlines[s] = 1 => workers'[s] = workers[s] /\ newlines'[s] = 1]_vars

\* C15's case: a session with a prefix ended on a non-zero status after its
\* prefix writes, and wrote its newline.
C15_Witness ==
    \E s \in Sessions :
        /\ pc[s] = "ret"
        /\ hasPrefix[s]
        /\ got[s].st # 0
        /\ got[s].line = 2
        /\ newlines[s] = 1
        /\ runErr[s] = "nil"

\* An error made by the newline-write wrapping (under errors.Wrap or not), and
\* an error of the network or runtime class.
NewLineWrapped(e) == Cause(e).wraps # <<>> /\ Head(Cause(e).wraps) = "nl"
NetOrRuntime(e) == Cause(e) \in {Err(<<>>, "net"), Err(<<>>, "runtime")}

\* C16 as stated: IsRecoverable says ok for nil, context.Canceled,
\* context.DeadlineExceeded and every newline-write error, not ok for network
\* and runtime errors, and ok for every other error.
C16_Classification ==
    recOut # NoResult =>
        /\ recIn = NilErr => recOut[1].ok = TRUE
        /\ Cause(recIn) \in {Err(<<>>, "canceled"), Err(<<>>, "deadline")} => recOut[1].ok = TRUE
        /\ NewLineWrapped(recIn) => recOut[1].ok = TRUE
        /\ NetOrRuntime(recIn) => recOut[1].ok = FALSE
        /\ ~NetOrRuntime(recIn) => recOut[1].ok = TRUE

\* C17: a Run with a nil engine does one thing: it fails with errNoEngine from
\* the start of Run and changes nothing else; it never reaches the registry,
\* starts no runner, no monitor and no read or write, and applies no option.
C17_NoEngineFailsFirst ==
    /\ [](\A s \in Sessions :
            engOf[s] = NoEngine =>
                /\ pc[s] \in {"start", "panicked"}
                /\ pc[s] = "panicked" <=> runErr[s] = "errNoEngine"
                /\ mu # <<"ui", s>>
                /\ hand[s] = None
                /\ fpc[s] = "none"
                /\ ~uiCancelled[s]
                /\ workers[s] = <<>>
                /\ sigHandlers[s] = <<>>
                /\ \A r \in RunnerIds : runners[r].creator # s /\ runners[r].eng # NoEngine)
    /\ [][\A s \in Sessions :
            (engOf[s] = NoEngine /\ pc'[s] # pc[s]) =>
                UNCHANGED <<ctxVars, engOf, reqClosed, regVars, fwdVars, dispVars,
                            ioVars, sigVars, recVars>>]_vars

\* C17's case: a Run with no engine has failed while another session's Run
\* is attached to a runner.
C17_Witness ==
    \E s, t \in Sessions :
        /\ engOf[s] = NoEngine
        /\ pc[s] = "panicked"
        /\ runErr[s] = "errNoEngine"
        /\ pc[t] = "prefix"
        /\ Len(runners) = 1

\* C18: the registry keeps engines apart. An entry of engine e names a runner
\* of e, which a session of e started; a session's channel is handed to, and
\* served by, a runner of the session's own engine only; an engine no session
\* runs with has no entry and no runner; and an entry is removed by the runner
\* it names and by no other.
C18_RegistryIsolation ==
    /\ [](/\ \A e \in Engines :
                /\ engs[e] # None => runners[engs[e]].eng = e
                /\ (\A s \in Sessions : engOf[s] # e) =>
                      engs[e] = None /\ \A r \in RunnerIds : runners[r].eng # e
          /\ \A r \in RunnerIds : engOf[runners[r].creator] = runners[r].eng
          /\ \A s \in Sessions :
                /\ hand[s] # None => runners[hand[s]].eng = engOf[s]
                /\ fwdOf[s] # None => runners[fwdOf[s]].eng = engOf[s])
    /\ [][\A e \in Engines :
            (engs[e] # None /\ engs'[e] # engs[e]) =>
                /\ engs'[e] = None
                /\ mu = <<"runner", engs[e]>>
                /\ runners[engs[e]].eng = e]_vars

\* C18's case: both engines had a runner with a session attached; the runner
\* of e1 was torn down and the entry and the runner of e2 are still there.
C18_Witness ==
    \E r1, r2 \in RunnerIds : \E s1, s2 \in Sessions :
        /\ runners[r1].eng = "e1" /\ runners[r1].pc = "done"
        /\ engs["e1"] = None
        /\ runners[r2].eng = "e2" /\ runners[r2].pc = "select"
        /\ engs["e2"] = r2
        /\ fwdOf[s1] = r1 /\ fwdOf[s2] = r2

\* C19: once the monitor's context is done, the monitor eventually stops: its
\* deferred signal.Stop(sigCh) and close(sigCh) have run and it has returned.
C19_MonitorStops ==
    \A s \in Sessions : UIDone(s) ~> (mon[s] = "stopped")

\* C20 as stated: when the runner's root context is done at the end of an
\* engine call, the forwarding goroutine's next step is the discard: it closes
\* the response channel with no value on it and ends.
C20_DiscardsWhenDone ==
    [][\A s \in Sessions :
          (fpc[s] = "deliver" /\ RunnerDone(fwdOf[s]) /\ fpc'[s] # "deliver") =>
              /\ fpc'[s] = "done"
              /\ chans'[fwdReq[s].ch].sends = 0]_vars

\* C20, amended: when the runner's root context is done at the end of an
\* engine call the forwarding goroutine may discard the result, and only then;
\* a discard closes the response channel with no value on it and ends the
\* goroutine, and the exec call that waits on the channel returns zero. When
\* the send is taken instead, the status is delivered.
C20_MayDiscard ==
    /\ [](\A s \in Sessions :
            /\ (fpc[s] = "deliver" /\ RunnerDone(fwdOf[s])) => ENABLED FwdDeliverCancel(s)
            /\ got[s].how = "closed" =>
                  /\ got[s].st = 0
                  /\ chans[<<s, got[s].line>>].sends = 0
                  /\ chans[<<s, got[s].line>>].closes = 1
            /\ got[s].how = "value" => chans[<<s, got[s].line>>].sends = 1)
    /\ [][\A s \in Sessions :
            (fpc[s] = "deliver" /\ fpc'[s] = "done") =>
                /\ RunnerDone(fwdOf[s])
                /\ chans'[fwdReq[s].ch].sends = 0
                /\ chans'[fwdReq[s].ch].closes = 1]_vars

\* C20's case: the engine returned a non-zero status, the goroutine discarded
\* it and ended, and exec returned zero from the closed channel.
C20_Witness ==
    \E s \in Sessions :
        /\ got[s].how = "closed"
        /\ got[s].st = 0
        /\ engLog[s] = [line |-> got[s].line, st |-> 1]
        /\ fpc[s] = "done"

\* C21: a runner whose root context is done receives no session channel: no
\* hand-off is received by a runner at a moment when its context is done.
C21_NoAcceptAfterDone ==
    [][\A s \in Sessions :
          (pc[s] = "handoff" /\ pc'[s] = "prefix") => ~RunnerDone(hand[s])]_vars

\* C22: the response channel has room for one value: the forwarding goroutine
\* that holds a status can put it on the channel on its own, whether or not
\* the caller is receiving.
C22_SlotTakesStatus ==
    \A s \in Sessions :
        (fpc[s] = "deliver" /\ chans[fwdReq[s].ch].closes = 0) => ENABLED FwdDeposit(s)

\* C23: once Run has returned and closed its request channel, the forwarding
\* goroutine of that channel, if the channel was accepted, ends; a forwarding
\* goroutine is started only by the acceptance of a session channel, and a
\* channel that has one is never handed off again, so there is at most one
\* per accepted channel.
C23_ForwarderExits ==
    /\ \A s \in Sessions : reqClosed[s] ~> (fpc[s] \in {"none", "done"})
    /\ [][\A s \in Sessions :
            /\ (fpc[s] = "none" /\ fpc'[s] # "none") => (pc[s] = "handoff" /\ pc'[s] = "prefix")
            /\ (fpc[s] # "none") => (fpc'[s] # "none" /\ pc'[s] \notin {"start", "lookup", "handoff"})
            /\ (fpc[s] = "done") => (fpc'[s] = "done")]_vars

\* Run returned with requests dispatched, and the forwarding goroutine ended.
C23_Witness ==
    \E s \in Sessions :
        /\ pc[s] = "returned" /\ reqClosed[s] /\ fpc[s] = "done"
        /\ Dispatched(s) # {}
        /\ ~RunnerDone(fwdOf[s])

\* The goroutines of session s's Read and Write calls that have not ended.
Lingering(s) == {w \in DOMAIN workers[s] : workers[s][w].pc # "done"}
Writes(s) == Cardinality({w \in DOMAIN workers[s] : workers[s][w].op = "write"})

\* C24 as stated: every Read and every Write starts exactly one goroutine; Run's
\* ui.Write(nil) at the top of the loop is a Write call, so each pass of the
\* loop that gets by the prefix write has started one write goroutine.
C24_EveryCallOneWorker ==
    [][\A s \in Sessions :
          (pc[s] = "prefix" /\ pc'[s] \in {"write", "read"}) => Writes(s)' = Writes(s) + 1]_vars

\* C24: every Read, and every Write that has bytes to write, starts exactly one
\* goroutine and nothing else starts one; a goroutine whose stream call has
\* returned can always take its step, which sends or drops the result and
\* closes the channel; an ended goroutine has closed its channel and stays as it
\* is but for the receipt of its value; the goroutines that linger are in their
\* stream call.
C24_WorkerNeverBlocks ==
    /\ [](\A s \in Sessions : \A w \in DOMAIN workers[s] :
            /\ workers[s][w].pc \in {"prim", "done"}
            /\ (workers[s][w].pc = "done") <=> workers[s][w].closed
            /\ workers[s][w].buf => workers[s][w].closed
            /\ (workers[s][w].pc = "prim" /\ workers[s][w].res # Blocked)
                  => ENABLED WorkerSend(s, w))
    /\ [][\A s \in Sessions :
            /\ Len(workers'[s]) =
                 IF pc'[s] \in {"read", "write"} /\ pc'[s] # pc[s]
                   THEN Len(workers[s]) + 1 ELSE Len(workers[s])
            /\ Len(workers'[s]) > Len(workers[s]) => workers'[s][Len(workers'[s])].op = pc'[s]
            /\ \A w \in DOMAIN workers[s] :
                  workers[s][w].closed =>
                     /\ workers'[s][w].closed
                     /\ workers'[s][w].pc = "done"
                     /\ workers'[s][w].buf => workers[s][w].buf]_vars

\* The session's context is done, one goroutine dropped its result and closed
\* its channel, and a later one lingers in a stream call that does not return.
C24_Witness ==
    \E s \in Sessions : \E v, w \in DOMAIN workers[s] :
        /\ UIDone(s)
        /\ workers[s][v].pc = "done" /\ workers[s][v].closed
        /\ workers[s][v].late
        /\ w \in Lingering(s) /\ workers[s][w].res = Blocked

\* C25: the registry mutex is held by a startEngine call only in its critical
\* section and by a runner only around its delete, and the holder can always
\* take the step that releases it: nobody holds it at a channel send, receive
\* or close (the hand-off, the runner's select, the runner's close).
C25_MutexOnlyForMap ==
    /\ \A s \in Sessions :
          mu = <<"ui", s>> => (pc[s] = "lookup" /\ ENABLED StartEngineLookup(s))
    /\ \A r \in RunnerIds :
          mu = <<"runner", r>> =>
             (runners[r].pc = "delete" /\ runners[r].closed /\ ENABLED RunnerDelete(r))
    /\ mu = Unlocked \/ (\E s \in Sessions : mu = <<"ui", s>>)
                     \/ (\E r \in RunnerIds : mu = <<"runner", r>>)

\* A runner holds the mutex for its delete while a session waits at the
\* hand-off and another one waits for the mutex.
C25_Witness ==
    \E r \in RunnerIds : \E s, t \in Sessions :
        /\ mu = <<"runner", r>>
        /\ pc[s] = "handoff"
        /\ pc[t] = "start" /\ engOf[t] # NoEngine

\* C26: a result of the cancellable Read or Write is (0, the context's error)
\* or the very result that the stream call of that Read or Write returned.
C26_ResultIsPrimitives ==
    \A s \in Sessions :
        ioRes[s].err # "none" =>
           \/ ioRes[s] = Res(0, "ctx")
           \/ \E w \in DOMAIN workers[s] : workers[s][w].res = ioRes[s]

\* C27: an exec call of a session whose own context is not done is never left
\* without a step that carries it on: its send can be received, or its
\* forwarding goroutine can run the engine, deliver the status or close the
\* response channel.
C27_ExecCanGoOn ==
    \A s \in Sessions :
        (pc[s] \in {"exec", "wait"} /\ ~UIDone(s)) =>
            ENABLED (\/ ExecSend(s) \/ FwdExec(s)
                     \/ (\E t \in Sessions : FwdDeliver(s, t))
                     \/ FwdDeliverCancel(s) \/ FwdClose(s) \/ ExecRecvClosed(s))

\* C28: no startEngine call is at its hand-off send with the intake channel of
\* its runner closed: the send never panics.
C28_NoSendOnClosedIntake ==
    \A s \in Sessions : ~ENABLED StartEnginePanic(s)

\* The line of the last request of session s that has been through the engine:
\* the largest dispatched line but for the one the engine is working on.
LastExecuted(s) ==
    LET done == Dispatched(s) \ (IF fpc[s] = "exec" THEN {fwdReq[s].line} ELSE {})
    IN  IF done = {} THEN 0 ELSE CHOOSE j \in done : \A k \in done : k <= j

\* C29: the engine is called once for every request a forwarding goroutine
\* received and never otherwise: an Exec call is in progress exactly while its
\* forwarding goroutine holds a request not yet executed, it returns for the line
\* of that request, which the session sent, every return is for a later line
\* than the one before, and the last line executed is the last request received
\* but for the one in progress.
C29_OneExecPerRequest ==
    /\ [](\A s \in Sessions :
            /\ inflight[s] = (IF fpc[s] = "exec" THEN 1 ELSE 0)
            /\ engLog[s].line = LastExecuted(s)
            /\ fpc[s] \in {"exec", "deliver", "close"} =>
                  (fwdReq[s].ch[1] = s /\ chans[fwdReq[s].ch].sent
                     /\ fwdReq[s].line \in Dispatched(s)))
    /\ [][\A s \in Sessions :
            /\ (engLog'[s] # engLog[s] \/ inflight'[s] < inflight[s]) =>
                  /\ fpc[s] = "exec" /\ fpc'[s] = "deliver"
                  /\ engLog'[s].line = fwdReq[s].line
                  /\ engLog'[s].line > engLog[s].line
                  /\ inflight'[s] = inflight[s] - 1
            /\ inflight'[s] > inflight[s] =>
                  /\ pc[s] = "exec" /\ pc'[s] = "wait"
                  /\ fwdReq'[s].line = nCalls[s]
                  /\ Dispatched(s)' = Dispatched(s) \cup {nCalls[s]}
                  /\ nCalls[s] \notin Dispatched(s)
            /\ Dispatched(s)' # Dispatched(s) => inflight'[s] = inflight[s] + 1]_vars

\* Both lines of a session were dispatched and executed while the other session
\* had a request at the engine.
C29_Witness ==
    \E s, t \in Sessions :
        /\ s # t
        /\ Cardinality(Dispatched(s)) = MaxLines
        /\ engLog[s].line = MaxLines /\ fpc[s] = "idle"
        /\ inflight[t] = 1
====
